---- MODULE Spec2Model ----
(***************************************************************************)
(* A model of direction-finding-sim.ipynb: the MUSIC angle-of-arrival      *)
(* simulation behind four ipywidgets controls.                            *)
(*                                                                         *)
(* Numbers.  The notebook computes in floating point; the model computes   *)
(* exactly, on grids:                                                      *)
(*   - a complex number is a record [re, im, nan] of integers, holding the *)
(*     value times Scale (a sample) or times Scale^2 (a covariance entry,  *)
(*     whose record also carries the divisor applied by "cov /= ...");     *)
(*   - np.exp(2j*pi*x) is evaluated on the four-point phase grid           *)
(*     {1, j, -1, -j}: the phase x is rounded to the nearest quarter turn; *)
(*   - np.sqrt(0.5 / snr) is rounded to the nearest multiple of 1/Scale;  *)
(*   - a pseudo-spectrum power is held in tenths.                         *)
(* Arrays are numpy ndarrays: a shape and the values by index, so that     *)
(* broadcasting, matmul and transposition do what numpy does.              *)
(***************************************************************************)
EXTENDS Integers, Sequences, FiniteSets

VARIABLES
    \* the four control widgets (cell 8): their current values
    num_antennas_input,      \* BoundedIntText
    incident_input,          \* IntSlider, degrees
    snr_input,               \* FloatSlider, in tenths
    antenna_spacing_input,   \* FloatSlider, in tenths of a centimetre
    \* the kernel's module state
    globals,                 \* the module constants of cell 3
    rng,                     \* numpy's global generator: [state, pos, seedings]
    \* the frame of the running draw_pseudo_spectrum call, and of its callees
    pc,                      \* where the call is
    args,                    \* the arguments of the call
    antenna_spacing,         \* the local of draw_pseudo_spectrum, a rational
    antenna_response,        \* ndarray
    cov,                     \* sample_cov's accumulator, ndarray + divisor
    t,                       \* sample_cov's loop: iterations done
    iq_sample_at_t,          \* ndarray
    sample_covariance,       \* ndarray + divisor, or None
    cov_eigvals,             \* np.linalg.eig's eigenvalues, in returned order
    non_noise_cov_eigvecs,   \* the columns music keeps, by eigenvalue
    signal_powers,           \* the pseudo-spectrum, a sequence of powers
    peaks,                   \* find_peaks' indices
    estimated_angle_lines,   \* the axvline positions drawn for the peaks
    error,                   \* the exception raised to the caller, or None
    \* history of the call, kept for the properties only
    hist

vars == << num_antennas_input, incident_input, snr_input, antenna_spacing_input,
           globals, rng, pc, args, antenna_spacing, antenna_response, cov, t,
           iq_sample_at_t, sample_covariance, cov_eigvals, non_noise_cov_eigvecs,
           signal_powers, peaks, estimated_angle_lines, error, hist >>

widgetVars == << num_antennas_input, incident_input, snr_input, antenna_spacing_input >>

None == "None"

-----------------------------------------------------------------------------
(* Bounds of the model *)

\* the largest antenna count a request is given
MaxAntennas == 3
\* CTE_SAMPLES (50 in cell 3): the loop of sample_cov runs this many times
CTE_SAMPLES == 2
\* NUM_ANGLES_TO_SEARCH (360 in cell 3): the size of music's search grid
NUM_ANGLES_TO_SEARCH == 3
\* the longest pseudo-spectrum handed to the angle extraction on its own
MaxGrid == 5
\* the number of requests started
MaxCalls == 5
\* the fixed-point resolution of a sample: values are multiples of 1/Scale
Scale == 2

(* Program constants *)
NUM_SOURCES == 1
MAX_SEARCH_ANGLE == 90
\* np.random.seed(0)
SEED == 0
\* find_peaks(signal_powers, height=1)
PEAK_HEIGHT == 1
\* scipy.constants.speed_of_light, m/s
speed_of_light == 299792458
\* CTE_FREQUENCY = BLUETOOTH_FREQUENCY + FREQUENCY_DEVIATION, in kHz
FREQUENCY_DEVIATION == 250
BLUETOOTH_FREQUENCY == 2450000
CTE_FREQUENCY == BLUETOOTH_FREQUENCY + FREQUENCY_DEVIATION
\* CTE_TIME, in microseconds
CTE_TIME == 160

-----------------------------------------------------------------------------
(* Integer helpers *)

Abs(x) == IF x < 0 THEN -x ELSE x

Min(a, b) == IF a < b THEN a ELSE b

Max(a, b) == IF a < b THEN b ELSE a

\* a / b rounded to the nearest integer, halves away from zero (b > 0)
RoundDiv(a, b) == IF a >= 0 THEN (2 * a + b) \div (2 * b)
                  ELSE -((2 * (-a) + b) \div (2 * b))

-----------------------------------------------------------------------------
(* Complex numbers: [re, im, nan] *)

C(re, im) == [re |-> re, im |-> im, nan |-> FALSE]

NaN == [re |-> 0, im |-> 0, nan |-> TRUE]

CZero == C(0, 0)

CAdd(x, y) == IF x.nan \/ y.nan THEN NaN ELSE C(x.re + y.re, x.im + y.im)

CMul(x, y) == IF x.nan \/ y.nan THEN NaN
              ELSE C(x.re * y.re - x.im * y.im, x.re * y.im + x.im * y.re)

\* z.conjugate()
CConj(x) == IF x.nan THEN NaN ELSE C(x.re, -x.im)

RECURSIVE CSumTo(_, _)
\* f[1] + ... + f[n], complex
CSumTo(f, n) == IF n = 0 THEN CZero ELSE CAdd(f[n], CSumTo(f, n - 1))

\* np.exp(2j * pi * q / 4) times Scale: the four-point phase grid
CisQuarter(q) == CASE q % 4 = 0 -> C(Scale, 0)
                   [] q % 4 = 1 -> C(0, Scale)
                   [] q % 4 = 2 -> C(-Scale, 0)
                   [] OTHER     -> C(0, -Scale)

-----------------------------------------------------------------------------
(* numpy ndarrays of at most two dimensions: [shape, div, a].  a is indexed *)
(* from 1 by <<i>> or <<i, k>> (Python's index plus one) and holds the      *)
(* numerators; div is the common divisor of the entries.                   *)

Indices(shape) == IF Len(shape) = 1 THEN {<<i>> : i \in 1..shape[1]}
                  ELSE {<<i, k>> : i \in 1..shape[1], k \in 1..shape[2]}

NdArray(shape, div, f(_)) ==
    [shape |-> shape, div |-> div, a |-> [ix \in Indices(shape) |-> f(ix)]]

\* x.size
NdSize(x) == IF Len(x.shape) = 1 THEN x.shape[1] ELSE x.shape[1] * x.shape[2]

\* the shape with leading 1s up to two dimensions, as broadcasting aligns it
Pad2(shape) == IF Len(shape) = 1 THEN <<1, shape[1]>> ELSE shape

\* the element of x that broadcasting puts at <<i, k>> of the result
BroadcastAt(x, i, k) ==
    LET s == Pad2(x.shape)
        ii == IF s[1] = 1 THEN 1 ELSE i
        kk == IF s[2] = 1 THEN 1 ELSE k
    IN IF Len(x.shape) = 1 THEN x.a[<<kk>>] ELSE x.a[<<ii, kk>>]

\* x + y with numpy's broadcasting (compatible shapes, equal divisors)
NdAdd(x, y) ==
    LET sx == Pad2(x.shape)
        sy == Pad2(y.shape)
        shape == <<IF sx[1] = 1 THEN sy[1] ELSE sx[1], IF sx[2] = 1 THEN sy[2] ELSE sx[2]>>
    IN NdArray(shape, x.div, LAMBDA ix : CAdd(BroadcastAt(x, ix[1], ix[2]),
                                              BroadcastAt(y, ix[1], ix[2])))

\* x.conjugate()
NdConjugate(x) == NdArray(x.shape, x.div, LAMBDA ix : CConj(x.a[ix]))

\* x.T of a 2-d array
NdTranspose(x) ==
    NdArray(<<x.shape[2], x.shape[1]>>, x.div, LAMBDA ix : x.a[<<ix[2], ix[1]>>])

\* x @ y of 2-d arrays
NdMatmul(x, y) ==
    NdArray(<<x.shape[1], y.shape[2]>>, x.div * y.div,
            LAMBDA ix : CSumTo([j \in 1..x.shape[2] |->
                                   CMul(x.a[<<ix[1], j>>], y.a[<<j, ix[2]>>])],
                               x.shape[2]))

\* np.zeros(shape, dtype=complex)
NdZeros(shape, div) == NdArray(shape, div, LAMBDA ix : CZero)

\* x / c for a positive integer c
NdDivide(x, c) == [x EXCEPT !.div = @ * c]

HasNaN(x) == \E ix \in Indices(x.shape) : x.a[ix].nan

-----------------------------------------------------------------------------
(* Cell 3: the module constants, as the functions read them *)

\* CTE_WAVELENGTH = speed_of_light / CTE_FREQUENCY, in micrometres
CTE_WAVELENGTH ==
    (speed_of_light \div CTE_FREQUENCY) * 1000
        + ((speed_of_light % CTE_FREQUENCY) * 1000) \div CTE_FREQUENCY

ModuleConstants ==
    [CTE_WAVELENGTH |-> CTE_WAVELENGTH, CTE_TIME |-> CTE_TIME,
     CTE_SAMPLES |-> CTE_SAMPLES, NUM_SOURCES |-> NUM_SOURCES,
     NUM_ANGLES_TO_SEARCH |-> NUM_ANGLES_TO_SEARCH,
     MAX_SEARCH_ANGLE |-> MAX_SEARCH_ANGLE]

-----------------------------------------------------------------------------
(* Cell 4: numpy's global generator *)

\* one step of the generator's state (a full-period congruential generator
\* stands for the Mersenne Twister)
RngStep(state) == (5 * state + 3) % 16

\* np.random.seed(seed)
Seeded(seed) == [state |-> seed % 16, pos |-> 0, seedings |-> 1]

RECURSIVE RngAdvance(_, _)
\* the generator after k draws
RngAdvance(r, k) ==
    IF k = 0 THEN r
    ELSE RngAdvance([r EXCEPT !.state = RngStep(@), !.pos = @ + 1], k - 1)

\* the standard normal draw the state gives, on the grid {-1, 0, 1}
NormalOf(state) == (state % 3) - 1

\* np.random.randn(n): the n draws, as integers
Randn(r, n) == [j \in 1..n |-> NormalOf(RngAdvance(r, j).state)]

-----------------------------------------------------------------------------
(* Cell 5: response_vec *)

\* a length [num, den] in metres, as micrometres
Micrometres(d) == (d.num * 1000000) \div d.den

\* 2 * np.sin(np.deg2rad(angle)) for whole degrees, to the nearest integer
Sin2(angle) ==
    LET m == IF Abs(angle) < 15 THEN 0 ELSE IF Abs(angle) < 49 THEN 1 ELSE 2
    IN IF angle < 0 THEN -m ELSE m

\* the phase of antenna k (from 0), in quarter turns:
\* 4 * (k * antenna_spacing) * sin(angle) / CTE_WAVELENGTH
QuarterTurns(k, incident_angle, spacing) ==
    RoundDiv(2 * k * Micrometres(spacing) * Sin2(incident_angle), globals.CTE_WAVELENGTH)

\* the column vector of shape (num_antennas, 1)
response_vec(num_antennas, incident_angle, spacing) ==
    NdArray(<<num_antennas, 1>>, Scale,
            LAMBDA ix : CisQuarter(QuarterTurns(ix[1] - 1, incident_angle, spacing)))

-----------------------------------------------------------------------------
(* Cell 6: sample_cov *)

\* np.sqrt(0.5 / snr) times Scale, to the nearest integer (snr in tenths, > 0)
Amplitude(snr) ==
    CHOOSE a \in 0..(3 * Scale) :
        /\ (a = 0 \/ (2 * a - 1) * (2 * a - 1) * snr <= 20 * Scale * Scale)
        /\ 20 * Scale * Scale < (2 * a + 1) * (2 * a + 1) * snr

\* np.sqrt(0.5 / snr) * z for the draws z: shape (num_antennas,);
\* the square root of a negative number is nan
NoiseTerm(snr, z, n) ==
    NdArray(<<n>>, Scale,
            LAMBDA ix : IF snr < 0 THEN NaN ELSE C(Amplitude(snr) * z[ix[1]], 0))

\* antenna_response + np.sqrt(0.5 / snr) * np.random.randn(num_antennas)
IqSample(response, snr, z) == NdAdd(response, NoiseTerm(snr, z, NdSize(response)))

\* iq_sample_at_t @ iq_sample_at_t.T: the conjugate forgotten
OuterProduct_NoConjugate(iq) == NdMatmul(iq, NdTranspose(iq))

\* iq_sample_at_t @ iq_sample_at_t.conjugate().T
OuterProduct(iq) == NdMatmul(iq, NdTranspose(NdConjugate(iq)))

\* cov += m (equal shapes and divisors)
Accumulate(c, m) == NdAdd(c, m)

-----------------------------------------------------------------------------
(* Cell 7: music *)

\* np.linalg.eig(covariance): the eigenvalues of an n x n Hermitian matrix are named
\* by rank, 1 the smallest and n the largest; numpy returns them in no particular
\* order, so every order is a possible result: order[j] is the rank in column j
EigOrders(n) == {p \in [1..n -> 1..n] : \A i, k \in 1..n : p[i] = p[k] => i = k}

\* cov_eigvecs[:, NUM_SOURCES:num_antennas]: the kept columns, by eigenvalue rank
KeptColumns(order, num_antennas) ==
    [j \in 1..Max(0, num_antennas - globals.NUM_SOURCES) |-> order[j + globals.NUM_SOURCES]]

\* a power above every finite one: 1 / 0 in numpy
InfPower == 1000 * 1000

\* the powers a pseudo-spectrum is made of here, in tenths
PipelinePowers == {5, 20}

\* the pseudo-spectra music can return over its grid: with no kept column every
\* denominator is 0; otherwise the powers depend on the eigenvectors, which the
\* model leaves open
Spectra(kept) ==
    IF Len(kept) = 0 THEN {[i \in 1..globals.NUM_ANGLES_TO_SEARCH |-> InfPower]}
    ELSE [1..globals.NUM_ANGLES_TO_SEARCH -> PipelinePowers]

-----------------------------------------------------------------------------
(* Cell 8: draw_pseudo_spectrum's angle extraction *)

RECURSIVE PlateauEnd(_, _, _)
\* while i_ahead < i_max and x[i_ahead] == x[i]: i_ahead += 1
PlateauEnd(x, i, i_ahead) ==
    IF i_ahead < Len(x) /\ x[i_ahead] = x[i] THEN PlateauEnd(x, i, i_ahead + 1)
    ELSE i_ahead

RECURSIVE LocalMaxima(_, _)
\* scipy's _local_maxima_1d from index i on: the midpoints of the maxima, flat ones
\* included (x indexed from 1: i runs from 2 to Len(x) - 1)
LocalMaxima(x, i) ==
    IF i >= Len(x) THEN {}
    ELSE IF x[i - 1] < x[i]
         THEN LET i_ahead == PlateauEnd(x, i, i + 1)
              IN IF x[i_ahead] < x[i]
                 THEN {(i + (i_ahead - 1)) \div 2} \cup LocalMaxima(x, i_ahead + 1)
                 ELSE LocalMaxima(x, i + 1)
         ELSE LocalMaxima(x, i + 1)

\* find_peaks taking height as a strict bound
find_peaks_StrictHeight(x, height) == {p \in LocalMaxima(x, 2) : height * 10 < x[p]}

\* find_peaks without its height
find_peaks_NoHeight(x, height) == LocalMaxima(x, 2)

\* find_peaks keeping the first peak only
find_peaks_FirstOnly(x, height) ==
    LET all == {p \in LocalMaxima(x, 2) : height * 10 <= x[p]}
    IN {p \in all : \A q \in all : p <= q}

\* find_peaks(x, height=h): the local maxima whose value is at least h
find_peaks(x, height) == {p \in LocalMaxima(x, 2) : height * 10 <= x[p]}

\* np.linspace(-MAX_SEARCH_ANGLE, MAX_SEARCH_ANGLE, n)[i - 1], as [num, den] degrees
SearchAngle(i, n) ==
    IF n = 1 THEN [num |-> -globals.MAX_SEARCH_ANGLE, den |-> 1]
    ELSE [num |-> -globals.MAX_SEARCH_ANGLE * (n - 1) + 2 * globals.MAX_SEARCH_ANGLE * (i - 1),
          den |-> n - 1]

-----------------------------------------------------------------------------
(* Cell 9: the widgets *)

\* a bounded widget whose min is not applied
BoundedValue_NoMin(v, min, max) == IF v > max THEN max ELSE v

\* a bounded widget keeps its value within [min, max]
BoundedValue(v, min, max) == IF v < min THEN min ELSE IF v > max THEN max ELSE v

\* BoundedIntText(value=5, min=2): max is the widget's default, 100
NumAntennasMin == 2
NumAntennasMax == 100
NumAntennasDefault == 5
\* IntSlider(value=60, min=-90, max=90)
IncidentMin == -90
IncidentMax == 90
IncidentDefault == 60
\* FloatSlider(value=2.5, min=0.1, max=5), in tenths
SnrMin == 1
SnrMax == 50
SnrDefault == 25
\* FloatSlider(value=6, min=0.5, max=20), in tenths of a centimetre
SpacingMin == 5
SpacingMax == 200
SpacingDefault == 60

\* what the user enters
NumAntennasEntries == 1..MaxAntennas
IncidentEntries == {-120, 0, 30}
SnrEntries == {0, 5, 80}
SpacingEntries == {2, 30, 250}

\* the float a FloatSlider in tenths hands over
Tenths(v) == [num |-> v, den |-> 10]

-----------------------------------------------------------------------------
(* The call of draw_pseudo_spectrum *)

NoFrame ==
    /\ args' = None
    /\ antenna_spacing' = None
    /\ antenna_response' = None
    /\ cov' = None
    /\ t' = 0
    /\ iq_sample_at_t' = None
    /\ sample_covariance' = None
    /\ cov_eigvals' = None
    /\ non_noise_cov_eigvecs' = None
    /\ signal_powers' = None
    /\ peaks' = None
    /\ estimated_angle_lines' = None
    /\ error' = None

\* antenna_spacing /= 100
ConvertSpacing(spacing) == [spacing EXCEPT !.den = @ * 100]

\* the spacing draw_pseudo_spectrum hands to response_vec, and the one it hands to music
SpacingForResponse(converted) == converted

SpacingForMusic(converted) == converted

\* np.zeros(shape=(num_antennas, num_antennas), dtype=complex), num_antennas the
\* size of the response
InitialCov(response) == NdZeros(<<NdSize(response), NdSize(response)>>, Scale * Scale)

\* draw_pseudo_spectrum(n, angle, snr, spacing) up to the first iteration of
\* sample_cov's loop
StartCall(n, angle, snr, spacing, by) ==
    LET converted == ConvertSpacing(spacing)
        response == response_vec(n, angle, SpacingForResponse(converted))
    IN /\ args' = [num_antennas |-> n, incident_angle |-> angle, snr |-> snr,
                   antenna_spacing |-> spacing]
       /\ antenna_spacing' = converted
       /\ antenna_response' = response
       /\ cov' = InitialCov(response)
       /\ t' = 0
       /\ pc' = "sample_cov"
       /\ hist' = [by |-> by, startPos |-> rng.pos, draws |-> <<>>,
                   respSpacing |-> SpacingForResponse(converted), musicSpacing |-> None,
                   response |-> response,
                   antennaSum |-> hist.antennaSum + n, calls |-> hist.calls + 1,
                   computed |-> {"response_vec"}]
       /\ iq_sample_at_t' = None
       /\ sample_covariance' = None
       /\ cov_eigvals' = None
       /\ non_noise_cov_eigvecs' = None
       /\ signal_powers' = None
       /\ peaks' = None
       /\ estimated_angle_lines' = None
       /\ error' = None
       /\ UNCHANGED << globals, rng >>

\* the generator after np.random.randn(n, n)
AfterRandn_Square(r, n) == RngAdvance(r, n * n)

\* the generator after np.random.randn(n)
AfterRandn(r, n) == RngAdvance(r, n)

\* what sample_cov's loop body leaves its argument antenna_response holding
ResponseAfterSample(response, iq) == response

\* one iteration of sample_cov's loop with the draws z
SampleCovBody(z) ==
    /\ pc = "sample_cov"
    /\ t < globals.CTE_SAMPLES
    /\ IF args.snr = 0
       THEN \* 0.5 / snr raises before randn is called
            /\ error' = "ZeroDivisionError"
            /\ pc' = "raised"
            /\ UNCHANGED << rng, antenna_response, cov, t, iq_sample_at_t, hist >>
       ELSE LET iq == IqSample(antenna_response, args.snr, z)
            IN /\ iq_sample_at_t' = iq
               /\ antenna_response' = ResponseAfterSample(antenna_response, iq)
               /\ cov' = Accumulate(cov, OuterProduct(iq))
               /\ rng' = AfterRandn(rng, NdSize(antenna_response))
               /\ t' = t + 1
               /\ hist' = [hist EXCEPT !.draws = Append(@, z),
                                       !.computed = @ \cup {"sample_cov"}]
               /\ UNCHANGED << pc, error >>
    /\ UNCHANGED << widgetVars, globals, args, antenna_spacing, sample_covariance,
                    cov_eigvals, non_noise_cov_eigvecs, signal_powers, peaks,
                    estimated_angle_lines >>

\* the iteration, its draws taken from the global generator
SampleCovStep == SampleCovBody(Randn(rng, NdSize(antenna_response)))

\* the draws a sample may be given
NoiseVals == {-1, 1}

\* the iteration under any draws
SampleCovAnyDraws ==
    \E z \in [1..NdSize(antenna_response) -> NoiseVals] : SampleCovBody(z)

\* cov /= CTE_SAMPLES; return cov
SampleCovReturn ==
    /\ pc = "sample_cov"
    /\ t >= globals.CTE_SAMPLES
    /\ cov' = NdDivide(cov, globals.CTE_SAMPLES)
    /\ sample_covariance' = cov'
    /\ pc' = "music"
    /\ UNCHANGED << widgetVars, globals, rng, args, antenna_spacing, antenna_response, t,
                    iq_sample_at_t, cov_eigvals, non_noise_cov_eigvecs, signal_powers,
                    peaks, estimated_angle_lines, error, hist >>

\* music normalising its argument in place: covariance /= num_antennas
CovarianceAfterEig_InPlace(covariance) == NdDivide(covariance, covariance.shape[1])

\* what music leaves its argument covariance holding
CovarianceAfterEig(covariance) == covariance

\* music(sample_covariance, antenna_spacing): the decomposition and the split
MusicEig ==
    /\ pc = "music"
    /\ hist' = [hist EXCEPT !.musicSpacing = SpacingForMusic(antenna_spacing),
                            !.computed = @ \cup {"music"}]
    /\ IF HasNaN(sample_covariance)
       THEN \* np.linalg.eig refuses an array holding nan
            /\ error' = "LinAlgError"
            /\ pc' = "raised"
            /\ UNCHANGED << sample_covariance, cov_eigvals, non_noise_cov_eigvecs >>
       ELSE \E order \in EigOrders(sample_covariance.shape[1]) :
                /\ cov_eigvals' = order
                /\ non_noise_cov_eigvecs' = KeptColumns(order, sample_covariance.shape[1])
                /\ sample_covariance' = CovarianceAfterEig(sample_covariance)
                /\ pc' = "music_scan"
                /\ UNCHANGED error
    /\ UNCHANGED << widgetVars, globals, rng, args, antenna_spacing, antenna_response, cov,
                    t, iq_sample_at_t, signal_powers, peaks, estimated_angle_lines >>

\* music's scan of the search grid, and its return: its locals are gone
MusicScan ==
    /\ pc = "music_scan"
    /\ \E sp \in Spectra(non_noise_cov_eigvecs) : signal_powers' = sp
    /\ cov_eigvals' = None
    /\ non_noise_cov_eigvecs' = None
    /\ pc' = "find_peaks"
    /\ UNCHANGED << widgetVars, globals, rng, args, antenna_spacing, antenna_response, cov,
                    t, iq_sample_at_t, sample_covariance, peaks, estimated_angle_lines,
                    error, hist >>

\* peaks, _ = find_peaks(signal_powers, height=1), and an axvline for each peak
FindPeaks ==
    /\ pc = "find_peaks"
    /\ peaks' = find_peaks(signal_powers, PEAK_HEIGHT)
    /\ estimated_angle_lines' = {SearchAngle(p, Len(signal_powers)) : p \in peaks'}
    /\ pc' = "done"
    /\ UNCHANGED << widgetVars, globals, rng, args, antenna_spacing, antenna_response, cov,
                    t, iq_sample_at_t, sample_covariance, cov_eigvals,
                    non_noise_cov_eigvecs, signal_powers, error, hist >>

\* the call is over: it returned None or raised, and its frame is gone
Return ==
    /\ pc \in {"done", "raised"}
    /\ pc' = "idle"
    /\ NoFrame
    /\ UNCHANGED << widgetVars, globals, rng, hist >>

-----------------------------------------------------------------------------
(* The widgets issue the requests *)

\* a request is started while the model's bound allows one more
MayStart == hist.calls < MaxCalls

\* widgets.interactive calls draw_pseudo_spectrum with the four current values
Request(n, angle, snr, spacing) == StartCall(n, angle, snr, Tenths(spacing), "widget")

\* the widget is displayed: interactive runs the function once
Display ==
    /\ pc = "loaded"
    /\ Request(num_antennas_input, incident_input, snr_input, antenna_spacing_input)
    /\ UNCHANGED widgetVars

SetNumAntennas ==
    \E v \in NumAntennasEntries :
        LET new == BoundedValue(v, NumAntennasMin, NumAntennasMax)
        IN /\ pc = "idle" /\ MayStart
           /\ new # num_antennas_input
           /\ num_antennas_input' = new
           /\ Request(new, incident_input, snr_input, antenna_spacing_input)
           /\ UNCHANGED << incident_input, snr_input, antenna_spacing_input >>

SetIncident ==
    \E v \in IncidentEntries :
        LET new == BoundedValue(v, IncidentMin, IncidentMax)
        IN /\ pc = "idle" /\ MayStart
           /\ new # incident_input
           /\ incident_input' = new
           /\ Request(num_antennas_input, new, snr_input, antenna_spacing_input)
           /\ UNCHANGED << num_antennas_input, snr_input, antenna_spacing_input >>

SetSnr ==
    \E v \in SnrEntries :
        LET new == BoundedValue(v, SnrMin, SnrMax)
        IN /\ pc = "idle" /\ MayStart
           /\ new # snr_input
           /\ snr_input' = new
           /\ Request(num_antennas_input, incident_input, new, antenna_spacing_input)
           /\ UNCHANGED << num_antennas_input, incident_input, antenna_spacing_input >>

SetSpacing ==
    \E v \in SpacingEntries :
        LET new == BoundedValue(v, SpacingMin, SpacingMax)
        IN /\ pc = "idle" /\ MayStart
           /\ new # antenna_spacing_input
           /\ antenna_spacing_input' = new
           /\ Request(num_antennas_input, incident_input, snr_input, new)
           /\ UNCHANGED << num_antennas_input, incident_input, snr_input >>

\* the notebook as loaded: cells 3 and 4 have run, the widgets hold their values
\* (the antenna count within the model's bound), nothing is displayed yet
WidgetsInit ==
    /\ num_antennas_input = Min(NumAntennasDefault, MaxAntennas)
    /\ incident_input = IncidentDefault
    /\ snr_input = SnrDefault
    /\ antenna_spacing_input = SpacingDefault

KernelInit ==
    /\ globals = ModuleConstants
    /\ rng = Seeded(SEED)

FrameInit ==
    /\ args = None
    /\ antenna_spacing = None
    /\ antenna_response = None
    /\ cov = None
    /\ t = 0
    /\ iq_sample_at_t = None
    /\ sample_covariance = None
    /\ cov_eigvals = None
    /\ non_noise_cov_eigvecs = None
    /\ signal_powers = None
    /\ peaks = None
    /\ estimated_angle_lines = None
    /\ error = None

HistInit ==
    hist = [by |-> None, startPos |-> 0, draws |-> <<>>, respSpacing |-> None,
            musicSpacing |-> None, response |-> None, antennaSum |-> 0, calls |-> 0,
            computed |-> {}]

Init ==
    /\ WidgetsInit
    /\ KernelInit
    /\ FrameInit
    /\ HistInit
    /\ pc = "loaded"

Next ==
    \/ Display
    \/ SetNumAntennas
    \/ SetIncident
    \/ SetSnr
    \/ SetSpacing
    \/ SampleCovStep
    \/ SampleCovReturn
    \/ MusicEig
    \/ MusicScan
    \/ FindPeaks
    \/ Return

Spec == Init /\ [][Next]_vars

-----------------------------------------------------------------------------
(* draw_pseudo_spectrum called directly, with any arguments *)

CallAntennas == 1..MaxAntennas
CallAngles == {0, 60}
CallSnrs == {-5, 0, 25}
CallSpacings == {60}

DirectCall ==
    \E n \in CallAntennas, angle \in CallAngles, snr \in CallSnrs, spacing \in CallSpacings :
        /\ pc = "idle" /\ MayStart
        /\ StartCall(n, angle, snr, Tenths(spacing), "call")
        /\ UNCHANGED widgetVars

InitCall ==
    /\ WidgetsInit
    /\ KernelInit
    /\ FrameInit
    /\ HistInit
    /\ pc = "idle"

NextCall ==
    \/ DirectCall
    \/ SampleCovStep
    \/ SampleCovReturn
    \/ MusicEig
    \/ MusicScan
    \/ FindPeaks
    \/ Return

SpecCall == InitCall /\ [][NextCall]_vars

-----------------------------------------------------------------------------
(* sample_cov on its own: every steering vector response_vec makes, any draws *)

CovAntennas == 2..MaxAntennas
CovAngles == {-30, 0, 30, 90}
CovSnrs == {5, 25}

InitCov ==
    \E n \in CovAntennas, angle \in CovAngles, snr \in CovSnrs :
        LET converted == ConvertSpacing(Tenths(SpacingDefault))
            response == response_vec(n, angle, converted)
        IN /\ WidgetsInit
           /\ KernelInit
           /\ pc = "sample_cov"
           /\ args = [num_antennas |-> n, incident_angle |-> angle, snr |-> snr,
                      antenna_spacing |-> Tenths(SpacingDefault)]
           /\ antenna_spacing = converted
           /\ antenna_response = response
           /\ cov = InitialCov(response)
           /\ t = 0
           /\ iq_sample_at_t = None
           /\ sample_covariance = None
           /\ cov_eigvals = None
           /\ non_noise_cov_eigvecs = None
           /\ signal_powers = None
           /\ peaks = None
           /\ estimated_angle_lines = None
           /\ error = None
           /\ hist = [by |-> "call", startPos |-> 0, draws |-> <<>>,
                      respSpacing |-> converted, musicSpacing |-> None,
                      response |-> response, antennaSum |-> n, calls |-> 1,
                      computed |-> {"response_vec"}]

NextCov ==
    \/ SampleCovAnyDraws
    \/ SampleCovReturn

SpecCov == InitCov /\ [][NextCov]_vars

-----------------------------------------------------------------------------
(* The angle extraction on its own: any pseudo-spectrum of 3 to MaxGrid points *)

\* powers in tenths: 0.2, 0.5, 1.0 (0 dB), 1.2 (1.6 dB) and 2.0
PeakPowers == {2, 5, 10, 12, 20}

InitPeaks ==
    \E x \in UNION {[1..m -> PeakPowers] : m \in 3..MaxGrid} :
        /\ WidgetsInit
        /\ KernelInit
        /\ HistInit
        /\ pc = "find_peaks"
        /\ args = None
        /\ antenna_spacing = None
        /\ antenna_response = None
        /\ cov = None
        /\ t = 0
        /\ iq_sample_at_t = None
        /\ sample_covariance = None
        /\ cov_eigvals = None
        /\ non_noise_cov_eigvecs = None
        /\ signal_powers = x
        /\ peaks = None
        /\ estimated_angle_lines = None
        /\ error = None

NextPeaks == FindPeaks

SpecPeaks == InitPeaks /\ [][NextPeaks]_vars

-----------------------------------------------------------------------------
(* Properties *)

\* 20 * log10(p / 10) > 1 for a power p in tenths: (p / 10)^2 > 10^(1/10) = 1.258925...
ExceedsOneDecibel(p) == p * p * 1000 > 125892

\* 20 * log10(p / 10) < 1
BelowOneDecibel(p) == p * p * 1000 < 125893

Extracted == pc = "done" /\ error = None

\* i is the one index holding the largest value of x
SingleGlobalMax(x, i) == \A j \in 1..Len(x) : j # i => x[j] < x[i]

Interior(x, i) == 1 < i /\ i < Len(x)

\* C1, as stated: the reported grid indices are exactly the interior indices strictly greater
\* than both neighbours whose decibel value exceeds 1 dB
C1_PeaksAreStrictMaximaAboveOneDecibel ==
    Extracted =>
        peaks = {i \in 1..Len(signal_powers) :
                    /\ Interior(signal_powers, i)
                    /\ signal_powers[i] > signal_powers[i - 1]
                    /\ signal_powers[i] > signal_powers[i + 1]
                    /\ ExceedsOneDecibel(signal_powers[i])}

\* the run l..r of x is flat, and strictly higher than the points on both sides
FlatMaximum(x, l, r) ==
    /\ 1 < l /\ l <= r /\ r < Len(x)
    /\ \A j \in l..r : x[j] = x[l]
    /\ x[l - 1] < x[l]
    /\ x[r + 1] < x[r]

\* C1, amended: the reported grid indices are exactly the midpoints (rounded down) of
\* the interior runs of equal values strictly higher than the points on both sides
\* (for a run of one point: strictly greater than both neighbours) whose power is at
\* least 1, that is 0 dB; the first and last grid points are never reported
C1_PeaksAreFlatMaximaOfPowerAtLeastOne ==
    Extracted =>
        /\ peaks = {m \in 1..Len(signal_powers) :
                       /\ PEAK_HEIGHT * 10 <= signal_powers[m]
                       /\ \E l, r \in 1..Len(signal_powers) :
                              FlatMaximum(signal_powers, l, r) /\ m = (l + r) \div 2}
        /\ 1 \notin peaks
        /\ Len(signal_powers) \notin peaks

\* a reported flat maximum, and a reported maximum of power 1, below 1 dB
C1_Witness ==
    /\ Extracted
    /\ \E p \in peaks : signal_powers[p] = signal_powers[p + 1]
    /\ \E p \in peaks : ~ExceedsOneDecibel(signal_powers[p])

\* C5, as stated: a single global maximum above the threshold, wherever it lies and
\* whatever smaller maxima there are, gives exactly one angle, the one at its index
C5_SingleGlobalMaxGivesOneAngle ==
    Extracted =>
        \A g \in 1..Len(signal_powers) :
            (SingleGlobalMax(signal_powers, g) /\ ExceedsOneDecibel(signal_powers[g]))
                => estimated_angle_lines = {SearchAngle(g, Len(signal_powers))}

\* j is an interior point of power at least 1 that is not lower than its neighbours
OtherCandidate(x, j) ==
    /\ Interior(x, j)
    /\ x[j - 1] <= x[j]
    /\ x[j + 1] <= x[j]
    /\ PEAK_HEIGHT * 10 <= x[j]

\* C5, amended: a single global maximum of power at least 1 at an interior grid
\* index is reported, at the grid angle of its index; it is the only angle reported
\* when no other interior point of power at least 1 is a local maximum
C5_InteriorGlobalMaxIsReported ==
    Extracted =>
        \A g \in 1..Len(signal_powers) :
            (/\ SingleGlobalMax(signal_powers, g)
             /\ PEAK_HEIGHT * 10 <= signal_powers[g]
             /\ Interior(signal_powers, g))
                => /\ g \in peaks
                   /\ SearchAngle(g, Len(signal_powers)) \in estimated_angle_lines
                   /\ Cardinality(estimated_angle_lines) = Cardinality(peaks)
                   /\ (\A j \in 1..Len(signal_powers) :
                           j # g => ~OtherCandidate(signal_powers, j))
                          => estimated_angle_lines = {SearchAngle(g, Len(signal_powers))}

\* an interior single global maximum above the threshold, beside a smaller maximum
\* that is reported too
C5_Witness ==
    /\ Extracted
    /\ \E g \in 1..Len(signal_powers) :
           /\ SingleGlobalMax(signal_powers, g)
           /\ ExceedsOneDecibel(signal_powers[g])
           /\ Interior(signal_powers, g)
           /\ g \in peaks
           /\ Cardinality(peaks) = 2

\* C6, as stated: when every value is below 1 dB no angle is reported, and nothing
\* is raised
C6_NothingBelowOneDecibelIsReported ==
    (pc = "done" /\ \A i \in 1..Len(signal_powers) : BelowOneDecibel(signal_powers[i]))
        => peaks = {} /\ estimated_angle_lines = {} /\ error = None

\* C6, amended: when every power is below 1, that is below 0 dB, no angle is
\* reported, and nothing is raised
C6_NothingBelowPowerOneIsReported ==
    (pc = "done" /\ \A i \in 1..Len(signal_powers) : signal_powers[i] < PEAK_HEIGHT * 10)
        => peaks = {} /\ estimated_angle_lines = {} /\ error = None

\* a spectrum wholly below power 1 that has a local maximum, and no angle for it
C6_Witness ==
    /\ pc = "done"
    /\ \A i \in 1..Len(signal_powers) : signal_powers[i] < PEAK_HEIGHT * 10
    /\ \E i \in 2..(Len(signal_powers) - 1) :
           signal_powers[i - 1] < signal_powers[i] /\ signal_powers[i + 1] < signal_powers[i]
    /\ estimated_angle_lines = {}

\* C2: the columns music keeps are the eigenvectors of the num_antennas - NUM_SOURCES
\* smallest eigenvalues, whatever order the decomposition returned
C2_NoiseSubspaceIsSmallestEigenvalues ==
    pc = "music_scan" =>
        {non_noise_cov_eigvecs[j] : j \in 1..Len(non_noise_cov_eigvecs)}
            = 1..(sample_covariance.shape[1] - NUM_SOURCES)

\* the observation vector of sample s: steering[i] plus antenna i's own draw
Observation(s, i) ==
    CAdd(hist.response.a[<<i, 1>>], C(Amplitude(args.snr) * hist.draws[s][i], 0))

\* C3: entry (i, k) of the result is
\* (1/S) * sum_t (steering[i] + n_t[i]) * conj(steering[k] + n_t[k])
C3_CovIsMeanOfVectorOuterProducts ==
    pc = "music" =>
        /\ sample_covariance.shape = <<args.num_antennas, args.num_antennas>>
        /\ sample_covariance.div = Scale * Scale * CTE_SAMPLES
        /\ \A i, k \in 1..args.num_antennas :
               sample_covariance.a[<<i, k>>]
                   = CSumTo([s \in 1..CTE_SAMPLES |->
                                CMul(Observation(s, i), CConj(Observation(s, k)))],
                            CTE_SAMPLES)

\* the arguments the core takes as a configuration error
InvalidConfiguration(a) ==
    a.num_antennas < 2 \/ a.snr <= 0 \/ NUM_SOURCES >= a.num_antennas

\* C4: an invalid request ends in a configuration error before anything is computed
\* or drawn, and yields no spectrum and no angle
C4_InvalidRequestIsRejectedFirst ==
    (pc \notin {"idle", "loaded"} /\ InvalidConfiguration(args))
        => /\ pc = "raised"
           /\ error = "ConfigurationError"
           /\ hist.computed = {}
           /\ rng.pos = hist.startPos
           /\ signal_powers = None
           /\ estimated_angle_lines = None

\* m is square of size n and equals its conjugate transpose
Hermitian(m, n) ==
    /\ m.shape = <<n, n>>
    /\ \A i, k \in 1..n : m.a[<<i, k>>] = CConj(m.a[<<k, i>>])

\* C7: the accumulator after every iteration, and the matrix returned, are square of
\* size num_antennas and Hermitian
C7_CovIsHermitian ==
    /\ pc = "sample_cov" => Hermitian(cov, args.num_antennas)
    /\ pc = "music" => /\ Hermitian(cov, args.num_antennas)
                       /\ Hermitian(sample_covariance, args.num_antennas)

\* an accumulated matrix with an entry off the real axis
C7_Witness ==
    /\ pc = "sample_cov"
    /\ t >= 1
    /\ args.num_antennas >= 2
    /\ \E i, k \in 1..args.num_antennas : cov.a[<<i, k>>].im # 0

\* C8: a step of a request leaves the module constants alone, sample_cov leaves the
\* steering vector it was given as it was, and music leaves the covariance as it was;
\* once the call is over nothing of its frame is left
C8_RequestsWriteOnlyTheGenerator ==
    [][/\ globals' = globals
       /\ globals = ModuleConstants
       /\ (pc = "sample_cov" /\ pc' \in {"sample_cov", "music"})
              => antenna_response' = antenna_response /\ antenna_response = hist.response
       /\ (pc = "music" /\ pc' = "music_scan") => sample_covariance' = sample_covariance
       /\ (pc \notin {"idle", "loaded"}) => UNCHANGED widgetVars
       /\ pc' = "idle" =>
              /\ antenna_response' = None
              /\ cov' = None
              /\ sample_covariance' = None
              /\ signal_powers' = None]_vars

\* a second request has gone through sample_cov and music
C8_Witness == pc = "done" /\ hist.calls >= 2

RECURSIVE CovAfter(_, _, _, _)
\* the accumulator after k iterations on a generator that starts at r
CovAfter(response, snr, r, k) ==
    IF k = 0 THEN InitialCov(response)
    ELSE LET n == NdSize(response)
             z == Randn(RngAdvance(r, (k - 1) * n), n)
         IN Accumulate(CovAfter(response, snr, r, k - 1),
                       OuterProduct(IqSample(response, snr, z)))

\* the covariance of a request, from its arguments and the draws consumed before it
ExpectedCov(a, offset) ==
    LET response == response_vec(a.num_antennas, a.incident_angle,
                                 ConvertSpacing(a.antenna_spacing))
    IN NdDivide(CovAfter(response, a.snr, RngAdvance(Seeded(SEED), offset), CTE_SAMPLES),
                CTE_SAMPLES)

AfterSampleCov == pc \in {"music", "music_scan", "find_peaks", "done"}

Hundredth(a) == [num |-> a.num, den |-> a.den * 100]

\* C10: every request of the widgets has num_antennas >= 2 > NUM_SOURCES, an
\* incident angle in [-90, 90], an snr in [0.1, 5] and a spacing in [0.5, 20] cm,
\* divided by 100 once, the same value going to response_vec and to music
C10_WidgetRequestsAreValid ==
    (pc \notin {"idle", "loaded"} /\ hist.by = "widget") =>
        /\ args.num_antennas \in Int /\ args.num_antennas >= 2
        /\ NUM_SOURCES < args.num_antennas
        /\ args.incident_angle \in -90..90
        /\ args.snr \in 1..50 /\ args.snr > 0
        /\ args.antenna_spacing.den = 10 /\ args.antenna_spacing.num \in 5..200
        /\ antenna_spacing = Hundredth(args.antenna_spacing)
        /\ hist.respSpacing = antenna_spacing
        /\ "music" \in hist.computed => hist.musicSpacing = antenna_spacing
        /\ ~InvalidConfiguration(args)

\* a request made of entries the widgets had to bring back into range
C10_Witness ==
    /\ pc = "music_scan"
    /\ hist.by = "widget"
    /\ args.num_antennas = NumAntennasMin
    /\ args.incident_angle = IncidentMin
    /\ args.snr = SnrMin
    /\ args.antenna_spacing = Tenths(SpacingMin)
    /\ hist.musicSpacing = Hundredth(Tenths(SpacingMin))

====
